---- MODULE Spec2Model ----
(***************************************************************************)
(* Topology engine of power_system_simulation: the GraphProcessor class of *)
(* graph_processor.py (construction with validation, and the two queries   *)
(* find_downstream_vertices and find_alternative_edges).                   *)
(*                                                                         *)
(* The networkx graph self._graph is an nx.Graph: a simple undirected      *)
(* graph.  It is modelled by its node list (insertion order) and by a      *)
(* function from endpoint sets {u, v} to the "id" attribute of the edge,   *)
(* so that a second add_edge on the same endpoints overwrites the          *)
(* attribute and adds no edge, as nx.Graph.add_edge does.                  *)
(***************************************************************************)
EXTENDS Integers, Sequences, FiniteSets, TLC

\* Vertex identifiers are drawn from 1..MaxV, and a network has at most
\* MaxE edges.
MaxV == 3
MaxE == 3

\* Transformer tap positions are drawn from 1..MaxTap.
MaxTap == 3

VARIABLES
    vertex_ids,            \* self.vertex_ids
    edge_ids,              \* self.edge_ids
    edge_vertex_id_pairs,  \* self.edge_vertex_id_pairs
    edge_enabled,          \* self.edge_enabled
    source_vertex_id,      \* self.source_vertex_id
    graph,                 \* self._graph
    status,                \* "pending", "ok", or the error __init__ raised
    constructed,           \* history: the object as __init__ left it
    lastCall,              \* the last sequential query not yet kept: [op, arg]
    lastResult,            \* what it returned or raised: [kind, value]
    pc,                    \* per caller: position in its query
    call,                  \* per caller: [op, arg] of its query
    loc,                   \* per caller: the locals of its query
    res,                   \* per caller: [kind, value] once it has returned
    overlap,               \* history: two callers were inside a query at once
    remembered,            \* history: a query whose outcome the caller kept
    tap,                   \* the frame of optimal_tap_position
    a1,                    \* the GraphProcessor of assignment1.py
    nm                     \* the frame of nm_function

objVars == <<vertex_ids, edge_ids, edge_vertex_id_pairs, edge_enabled,
             source_vertex_id, graph>>
seqVars == <<lastCall, lastResult>>
conVars == <<pc, call, loc, res, overlap>>
auxVars == <<remembered, tap, a1, nm>>
vars == <<vertex_ids, edge_ids, edge_vertex_id_pairs, edge_enabled,
          source_vertex_id, graph, status, constructed, lastCall, lastResult,
          pc, call, loc, res, overlap, remembered, tap, a1, nm>>

----------------------------------------------------------------------------
(* Sequences and sets *)

Range(s) == {s[i] : i \in 1..Len(s)}

Min(S) == CHOOSE x \in S : \A y \in S : x <= y

\* The hash table of a set of ints: 8 slots until a fifth element is added,
\* 32 from then on (up to 18 elements)
TableSize(S) == IF Cardinality(S) <= 4 THEN 8 ELSE 32

\* The element of S in the lowest slot of a table of n slots; a non-negative
\* int v hashes to itself and goes to slot v % n.  (Two elements that share
\* a slot stand in the order in which they were added; the returned sets
\* of the networks drawn here hold no two such elements.)
FirstInTable(S, n) ==
    CHOOSE x \in S : \A y \in S :
        (x % n < y % n) \/ (x % n = y % n /\ x <= y)

RECURSIVE TableOrder(_, _)
TableOrder(S, n) ==
    IF S = {} THEN <<>>
    ELSE <<FirstInTable(S, n)>> \o TableOrder(S \ {FirstInTable(S, n)}, n)

\* list(a_set) for a set of non-negative ints: CPython walks the hash table
\* slot by slot, so ints below the table size come out in increasing order
\* and larger ones by their remainder.
SetToList(S) == TableOrder(S, TableSize(S))

\* list.index(x): the first position holding x
Index(s, x) == Min({i \in 1..Len(s) : s[i] = x})

----------------------------------------------------------------------------
(* nx.Graph *)

EmptyGraph == [nodes |-> <<>>, edges |-> <<>>]

\* G.add_node(n)
AddNode(g, n) ==
    IF n \in Range(g.nodes) THEN g ELSE [g EXCEPT !.nodes = Append(@, n)]

\* G.add_nodes_from(ns)
RECURSIVE AddNodesFrom(_, _)
AddNodesFrom(g, ns) ==
    IF ns = <<>> THEN g ELSE AddNodesFrom(AddNode(g, Head(ns)), Tail(ns))

\* G.add_edge(u, v, id=eid): an existing edge on {u, v} only has its
\* attribute overwritten
AddEdge(g, u, v, eid) ==
    LET h == AddNode(AddNode(g, u), v)
    IN  [h EXCEPT !.edges =
            [p \in (DOMAIN h.edges) \cup {{u, v}} |->
                IF p = {u, v} THEN eid ELSE h.edges[p]]]

HasEdge(g, u, v) == {u, v} \in DOMAIN g.edges

\* G.remove_edge(u, v) on a graph that has the edge
RemoveEdge(g, u, v) ==
    [g EXCEPT !.edges = [p \in (DOMAIN g.edges) \ {{u, v}} |-> g.edges[p]]]

\* the neighbours of the nodes in S
Adjacent(g, S) ==
    {n \in Range(g.nodes) : \E m \in S : {m, n} \in DOMAIN g.edges}

\* networkx _plain_bfs: the nodes reachable from the nodes of seen
RECURSIVE PlainBfs(_, _)
PlainBfs(g, seen) ==
    LET next == seen \cup Adjacent(g, seen)
    IN  IF next = seen THEN seen ELSE PlainBfs(g, next)

\* nx.is_connected(G), for a graph with at least one node
IsConnected(g) ==
    Cardinality(PlainBfs(g, {g.nodes[1]})) = Len(g.nodes)

\* nx.find_cycle(G) finds a cycle (True) or raises NetworkXNoCycle (False):
\* a self-loop is a cycle, and so is an edge whose endpoints stay joined
\* without it
HasCycle(g) ==
    \E p \in DOMAIN g.edges :
        \/ Cardinality(p) = 1
        \/ \E u \in p : \E v \in p \ {u} :
              v \in PlainBfs([g EXCEPT !.edges =
                                [q \in (DOMAIN g.edges) \ {p} |-> g.edges[q]]],
                             {u})

\* list(nx.connected_components(G)): one component per not-yet-seen node, in
\* node order
RECURSIVE ComponentsFrom(_, _, _)
ComponentsFrom(g, i, seen) ==
    IF i > Len(g.nodes) THEN <<>>
    ELSE IF g.nodes[i] \in seen THEN ComponentsFrom(g, i + 1, seen)
    ELSE LET c == PlainBfs(g, {g.nodes[i]})
         IN  <<c>> \o ComponentsFrom(g, i + 1, seen \cup c)

ConnectedComponents(g) == ComponentsFrom(g, 1, {})

----------------------------------------------------------------------------
(* GraphProcessor.__init__ *)

\* Faulty variant: both length checks are made before the endpoints are looked up.
ValidationErrorLengthsFirst(vs, es, ps, en, src) ==
    IF Range(vs) \cap Range(es) # {} THEN "IDNotUniqueError"
    ELSE IF Len(ps) # Len(es) THEN "InputLengthDoesNotMatchError"
    ELSE IF Len(en) # Len(es) THEN "InputLengthDoesNotMatchError"
    ELSE IF \E i \in 1..Len(ps) :
                ps[i][2] \notin Range(vs) \/ ps[i][1] \notin Range(vs)
         THEN "IDNotFoundError"
    ELSE IF src \notin Range(vs) THEN "IDNotFoundError"
    ELSE "none"

\* Faulty variant: the source is not looked up among the vertices.
ValidationErrorNoSourceCheck(vs, es, ps, en, src) ==
    IF Range(vs) \cap Range(es) # {} THEN "IDNotUniqueError"
    ELSE IF Len(ps) # Len(es) THEN "InputLengthDoesNotMatchError"
    ELSE IF \E i \in 1..Len(ps) :
                ps[i][2] \notin Range(vs) \/ ps[i][1] \notin Range(vs)
         THEN "IDNotFoundError"
    ELSE IF Len(en) # Len(es) THEN "InputLengthDoesNotMatchError"
    ELSE "none"

\* The checks of __init__ before the graph is built, in the order of the
\* code; "none" when all of them pass
ValidationError(vs, es, ps, en, src) ==
    IF Range(vs) \cap Range(es) # {} THEN "IDNotUniqueError"
    ELSE IF Len(ps) # Len(es) THEN "InputLengthDoesNotMatchError"
    ELSE IF \E i \in 1..Len(ps) :
                ps[i][2] \notin Range(vs) \/ ps[i][1] \notin Range(vs)
         THEN "IDNotFoundError"
    ELSE IF Len(en) # Len(es) THEN "InputLengthDoesNotMatchError"
    ELSE IF src \notin Range(vs) THEN "IDNotFoundError"
    ELSE "none"

\* Faulty variant: the loop adds every edge, enabled or not.
RECURSIVE AddEveryEdge(_, _, _, _, _)
AddEveryEdge(g, ps, en, es, i) ==
    IF i > Len(ps) \/ i > Len(en) \/ i > Len(es) THEN g
    ELSE AddEveryEdge(AddEdge(g, ps[i][1], ps[i][2], es[i]), ps, en, es, i + 1)

\* the loop over zip(edge_vertex_id_pairs, edge_enabled, edge_ids): only the
\* enabled edges are added
RECURSIVE AddEnabledEdges(_, _, _, _, _)
AddEnabledEdges(g, ps, en, es, i) ==
    IF i > Len(ps) \/ i > Len(en) \/ i > Len(es) THEN g
    ELSE AddEnabledEdges(
            IF en[i] THEN AddEdge(g, ps[i][1], ps[i][2], es[i]) ELSE g,
            ps, en, es, i + 1)

\* self._graph as built by __init__
BuildGraph(vs, es, ps, en) ==
    AddEnabledEdges(AddNodesFrom(EmptyGraph, vs), ps, en, es, 1)

\* The checks of __init__ on the graph it built
GraphError(g) ==
    IF Len(g.nodes) = 0 THEN "NetworkXPointlessConcept"
    ELSE IF ~IsConnected(g) THEN "GraphNotFullyConnectedError"
    ELSE IF HasCycle(g) THEN "GraphCycleError"
    ELSE "none"

\* __init__: the error it raises ("ok" when it returns) and self._graph
\* (not yet assigned when a check before the graph is built fails)
Construct(vs, es, ps, en, src) ==
    LET early == ValidationError(vs, es, ps, en, src)
    IN  IF early # "none" THEN [status |-> early, graph |-> EmptyGraph]
        ELSE LET g == BuildGraph(vs, es, ps, en)
                 late == GraphError(g)
             IN  [status |-> IF late = "none" THEN "ok" ELSE late, graph |-> g]

----------------------------------------------------------------------------
(* GraphProcessor.find_downstream_vertices *)

Returned(v) == [kind |-> "return", value |-> v]
Raised(e) == [kind |-> e, value |-> <<>>]

\* The object a query runs on
Obj == [vertex_ids |-> vertex_ids, edge_ids |-> edge_ids,
        edge_vertex_id_pairs |-> edge_vertex_id_pairs,
        edge_enabled |-> edge_enabled,
        source_vertex_id |-> source_vertex_id, graph |-> graph]

\* Faulty variant: the enabled flag of the edge is not looked at.
DownstreamEarlyAnyEdge(o, first_edge_id) ==
    IF first_edge_id \notin Range(o.edge_ids) THEN Raised("IDNotFoundError")
    ELSE [kind |-> "go", value |-> <<>>]

\* The two early exits: an unknown identifier raises, a disabled edge
\* returns []; "go" otherwise
DownstreamEarly(o, first_edge_id) ==
    IF first_edge_id \notin Range(o.edge_ids) THEN Raised("IDNotFoundError")
    ELSE IF ~o.edge_enabled[Index(o.edge_ids, first_edge_id)] THEN Returned(<<>>)
    ELSE [kind |-> "go", value |-> <<>>]

\* graph_copy = self._graph.copy()
GraphCopy(g) == g

\* graph_copy after graph_copy.remove_edge(vertex1, vertex2)
CopyAfterRemove(graph_copy, pair) == RemoveEdge(graph_copy, pair[1], pair[2])

\* Faulty variant: the edge is removed from self._graph itself.
StoredAfterRemoveLive(g, pair) == RemoveEdge(g, pair[1], pair[2])

\* self._graph after graph_copy.remove_edge(vertex1, vertex2): the copy is a
\* graph of its own, so the stored graph keeps the edge
StoredAfterRemove(g, pair) == g

\* Faulty variant: the component that holds the source is returned.
DownstreamSelectSourceSide(connected, src) ==
    LET withSrc == {i \in 1..Len(connected) : src \in connected[i]}
    IN  SetToList(connected[Min(withSrc)])

\* The component that holds the source, then the first component that is
\* not it, as a list; [] when there is no other component
DownstreamSelect(connected, src) ==
    LET withSrc == {i \in 1..Len(connected) : src \in connected[i]}
        source_component == connected[Min(withSrc)]
        others == {i \in 1..Len(connected) : connected[i] # source_component}
    IN  IF others = {} THEN <<>> ELSE SetToList(connected[Min(others)])

\* find_downstream_vertices(first_edge_id) run from start to end
FindDownstreamVertices(o, first_edge_id) ==
    LET early == DownstreamEarly(o, first_edge_id)
    IN  IF early.kind # "go" THEN early
        ELSE LET pair == o.edge_vertex_id_pairs[Index(o.edge_ids, first_edge_id)]
             IN  IF ~HasEdge(o.graph, pair[1], pair[2]) THEN Raised("NetworkXError")
                 ELSE Returned(DownstreamSelect(
                         ConnectedComponents(
                            CopyAfterRemove(GraphCopy(o.graph), pair)),
                         o.source_vertex_id))

\* self._graph once find_downstream_vertices(first_edge_id) has ended
GraphAfterDownstream(o, first_edge_id) ==
    IF DownstreamEarly(o, first_edge_id).kind # "go" THEN o.graph
    ELSE LET pair == o.edge_vertex_id_pairs[Index(o.edge_ids, first_edge_id)]
         IN  IF ~HasEdge(o.graph, pair[1], pair[2]) THEN o.graph
             ELSE StoredAfterRemove(o.graph, pair)

----------------------------------------------------------------------------
(* GraphProcessor.find_alternative_edges *)

\* Faulty variant: an unknown identifier is taken as an edge without
\* alternatives.
AlternativeEarlyUnknownReturns(o, disabled_edge_id) ==
    IF disabled_edge_id \notin Range(o.edge_ids) THEN Returned(<<>>)
    ELSE IF ~o.edge_enabled[Index(o.edge_ids, disabled_edge_id)]
         THEN Raised("EdgeAlreadyDisabledError")
    ELSE [kind |-> "go", value |-> <<>>]

\* Faulty variant: a disabled edge is taken as an edge without alternatives.
AlternativeEarlyDisabledReturns(o, disabled_edge_id) ==
    IF disabled_edge_id \notin Range(o.edge_ids) THEN Raised("IDNotFoundError")
    ELSE IF ~o.edge_enabled[Index(o.edge_ids, disabled_edge_id)]
         THEN Returned(<<>>)
    ELSE [kind |-> "go", value |-> <<>>]

\* The two early exits: an unknown identifier and a disabled edge both raise
AlternativeEarly(o, disabled_edge_id) ==
    IF disabled_edge_id \notin Range(o.edge_ids) THEN Raised("IDNotFoundError")
    ELSE IF ~o.edge_enabled[Index(o.edge_ids, disabled_edge_id)]
         THEN Raised("EdgeAlreadyDisabledError")
    ELSE [kind |-> "go", value |-> <<>>]

\* Faulty variant: every edge is a candidate, whatever its flag.
RECURSIVE DisabledFromAll(_, _, _)
DisabledFromAll(es, en, i) ==
    IF i > Len(en) THEN <<>>
    ELSE <<es[i]>> \o DisabledFromAll(es, en, i + 1)

\* [self.edge_ids[i] for i, enabled in enumerate(self.edge_enabled) if not enabled]
RECURSIVE DisabledFrom(_, _, _)
DisabledFrom(es, en, i) ==
    IF i > Len(en) THEN <<>>
    ELSE (IF en[i] THEN <<>> ELSE <<es[i]>>) \o DisabledFrom(es, en, i + 1)

DisabledEdges(o) == DisabledFrom(o.edge_ids, o.edge_enabled, 1)

\* dict(zip(es, en)): a later entry for the same identifier replaces an
\* earlier one
ZipDict(es, en) ==
    LET n == IF Len(es) <= Len(en) THEN Len(es) ELSE Len(en)
    IN  [k \in {es[i] : i \in 1..n} |->
            en[CHOOSE i \in 1..n :
                  es[i] = k /\ \A j \in 1..n : es[j] = k => j <= i]]

\* Faulty variant: the given edge keeps its state in the map.
EdgeStatusMapGivenKept(o, disabled_edge_id) ==
    ZipDict(o.edge_ids, o.edge_enabled)

\* edge_status_map: the states of all edges, with the given edge disabled
EdgeStatusMap(o, disabled_edge_id) ==
    [ZipDict(o.edge_ids, o.edge_enabled) EXCEPT ![disabled_edge_id] = FALSE]

\* temp_status_map: a copy of edge_status_map with test_edge_id enabled
TempStatusMap(edge_status_map, test_edge_id) ==
    [edge_status_map EXCEPT ![test_edge_id] = TRUE]

\* the loop over zip(self.edge_ids, self.edge_vertex_id_pairs) that fills
\* temp_graph
RECURSIVE AddMappedEdges(_, _, _, _, _)
AddMappedEdges(g, es, ps, temp_status_map, i) ==
    IF i > Len(es) \/ i > Len(ps) THEN g
    ELSE AddMappedEdges(
            IF temp_status_map[es[i]]
            THEN AddEdge(g, ps[i][1], ps[i][2], es[i]) ELSE g,
            es, ps, temp_status_map, i + 1)

\* temp_graph of one candidate
TempGraph(o, temp_status_map) ==
    AddMappedEdges(AddNodesFrom(EmptyGraph, o.vertex_ids),
                   o.edge_ids, o.edge_vertex_id_pairs, temp_status_map, 1)

\* Faulty variant: a trial graph only has to be free of cycles.
FeasibleCycleFreeOnly(temp_graph) == ~HasCycle(temp_graph)

\* The test of one candidate: connected, and find_cycle finds no cycle
Feasible(temp_graph) == IsConnected(temp_graph) /\ ~HasCycle(temp_graph)

\* Faulty variant: a candidate that ends at the source is not tried.
AlternativeStepAwayFromSource(o, edge_status_map, alt_list, test_edge_id) ==
    IF o.source_vertex_id \in
          Range(o.edge_vertex_id_pairs[Index(o.edge_ids, test_edge_id)])
    THEN alt_list
    ELSE IF Feasible(TempGraph(o, TempStatusMap(edge_status_map, test_edge_id)))
         THEN Append(alt_list, test_edge_id)
         ELSE alt_list

\* Faulty variant: a feasible candidate is put at the front of alt_list.
AlternativeStepPrepend(o, edge_status_map, alt_list, test_edge_id) ==
    IF Feasible(TempGraph(o, TempStatusMap(edge_status_map, test_edge_id)))
    THEN <<test_edge_id>> \o alt_list
    ELSE alt_list

\* One turn of the loop over disabled_edges: alt_list afterwards
AlternativeStep(o, edge_status_map, alt_list, test_edge_id) ==
    IF Feasible(TempGraph(o, TempStatusMap(edge_status_map, test_edge_id)))
    THEN Append(alt_list, test_edge_id)
    ELSE alt_list

\* Faulty variant: the loop ends at the first feasible candidate.
RECURSIVE AlternativeLoopFirstOnly(_, _, _, _, _)
AlternativeLoopFirstOnly(o, edge_status_map, disabled_edges, alt_list, i) ==
    IF i > Len(disabled_edges) \/ alt_list # <<>> THEN alt_list
    ELSE AlternativeLoopFirstOnly(o, edge_status_map, disabled_edges,
            AlternativeStep(o, edge_status_map, alt_list, disabled_edges[i]),
            i + 1)

\* The whole loop, from candidate i on
RECURSIVE AlternativeLoop(_, _, _, _, _)
AlternativeLoop(o, edge_status_map, disabled_edges, alt_list, i) ==
    IF i > Len(disabled_edges) THEN alt_list
    ELSE AlternativeLoop(o, edge_status_map, disabled_edges,
            AlternativeStep(o, edge_status_map, alt_list, disabled_edges[i]),
            i + 1)

\* find_alternative_edges(disabled_edge_id) run from start to end
FindAlternativeEdges(o, disabled_edge_id) ==
    LET early == AlternativeEarly(o, disabled_edge_id)
    IN  IF early.kind # "go" THEN early
        ELSE Returned(AlternativeLoop(o, EdgeStatusMap(o, disabled_edge_id),
                                      DisabledEdges(o), <<>>, 1))

\* self._graph once find_alternative_edges has ended: every trial is built
\* in a fresh temp_graph
GraphAfterAlternative(o, disabled_edge_id) == o.graph

----------------------------------------------------------------------------
(* The inputs of __init__ *)

\* Endpoint pairs over 1..MaxV, self-loops included
Pairs == {p \in (1..MaxV) \X (1..MaxV) : p[1] <= p[2]}

\* Edge lists are enumerated up to the order of their entries
EdgeRank(p, e) == 2 * (p[1] * (MaxV + 1) + p[2]) + (IF e THEN 1 ELSE 0)

NonDecreasing(ps, en) ==
    \A i \in 1..(Len(ps) - 1) :
        EdgeRank(ps[i], en[i]) <= EdgeRank(ps[i + 1], en[i + 1])

\* Edge identifiers 11, 12, ...; or the first one is 1, which is also a
\* vertex identifier
EdgeIdLists(n) ==
    {[i \in 1..n |-> 10 + i], [i \in 1..n |-> IF i = 1 THEN 1 ELSE 10 + i]}

\* A list, or the list with its last entry missing
Shorter(s) == {s} \cup (IF Len(s) > 0 THEN {SubSeq(s, 1, Len(s) - 1)} ELSE {})

\* The identifiers a query is called with: a vertex identifier, the edge
\* identifiers, and one identifier that is never declared
QueryIds == {1} \cup {10 + i : i \in 1..(MaxE + 1)}

Callers == {"a", "b"}

NoCall == [op |-> "none", arg |-> 0]
NoResult == [kind |-> "none", value |-> <<>>]
NoMemory == [call |-> NoCall, result |-> NoResult]
NoTap == [pc |-> "none"]
NoA1 == [status |-> "none", graph |-> EmptyGraph, result |-> NoResult]
NoNm == [pc |-> "none"]
NoLocals == [graph_copy |-> EmptyGraph, pair |-> <<0, 0>>,
             disabled_edges |-> <<>>, alt_list |-> <<>>,
             edge_status_map |-> <<>>, i |-> 0, connected |-> <<>>]

\* __init__ has stored its arguments (lines 49-53) and not yet checked them
Init ==
    \E n \in 0..MaxE : \E ps \in [1..n -> Pairs] : \E en \in [1..n -> BOOLEAN] :
        /\ NonDecreasing(ps, en)
        /\ \E k \in 0..MaxV : \E src \in 1..MaxV : \E es \in EdgeIdLists(n) :
           \E ps2 \in Shorter(ps) : \E en2 \in Shorter(en) :
              /\ vertex_ids = [i \in 1..k |-> i]
              /\ edge_ids = es
              /\ edge_vertex_id_pairs = ps2
              /\ edge_enabled = en2
              /\ source_vertex_id = src
        /\ graph = EmptyGraph
        /\ status = "pending"
        /\ constructed = [status |-> "pending", obj |-> Obj]
        /\ lastCall = NoCall
        /\ lastResult = NoResult
        /\ pc = [c \in Callers |-> "idle"]
        /\ call = [c \in Callers |-> NoCall]
        /\ loc = [c \in Callers |-> NoLocals]
        /\ res = [c \in Callers |-> NoResult]
        /\ overlap = FALSE
        /\ remembered = NoMemory
        /\ tap = NoTap
        /\ a1 = NoA1
        /\ nm = NoNm

----------------------------------------------------------------------------
(* Sequential use: the constructor, then any sequence of queries *)

\* GraphProcessor(vertex_ids, edge_ids, edge_vertex_id_pairs, edge_enabled,
\* source_vertex_id)
NewGraphProcessor ==
    /\ status = "pending"
    /\ LET made == Construct(vertex_ids, edge_ids, edge_vertex_id_pairs,
                             edge_enabled, source_vertex_id)
       IN  /\ status' = made.status
           /\ graph' = made.graph
           /\ constructed' = [status |-> made.status,
                              obj |-> [Obj EXCEPT !.graph = made.graph]]
    /\ UNCHANGED <<vertex_ids, edge_ids, edge_vertex_id_pairs, edge_enabled,
                   source_vertex_id, seqVars, conVars, auxVars>>

\* gp.find_downstream_vertices(id)
CallFindDownstreamVertices ==
    /\ status = "ok"
    /\ \E id \in QueryIds :
          /\ lastCall' = [op |-> "find_downstream_vertices", arg |-> id]
          /\ lastResult' = FindDownstreamVertices(Obj, id)
          /\ graph' = GraphAfterDownstream(Obj, id)
    /\ UNCHANGED <<vertex_ids, edge_ids, edge_vertex_id_pairs, edge_enabled,
                   source_vertex_id, status, constructed, conVars,
                   auxVars>>

\* gp.find_alternative_edges(id)
CallFindAlternativeEdges ==
    /\ status = "ok"
    /\ \E id \in QueryIds :
          /\ lastCall' = [op |-> "find_alternative_edges", arg |-> id]
          /\ lastResult' = FindAlternativeEdges(Obj, id)
          /\ graph' = GraphAfterAlternative(Obj, id)
    /\ UNCHANGED <<vertex_ids, edge_ids, edge_vertex_id_pairs, edge_enabled,
                   source_vertex_id, status, constructed, conVars,
                   auxVars>>

Next ==
    \/ NewGraphProcessor
    \/ CallFindDownstreamVertices
    \/ CallFindAlternativeEdges

Spec == Init /\ [][Next]_vars

----------------------------------------------------------------------------
(* Concurrent use: several callers run one query each on the same object, *)
(* interleaved statement by statement                                     *)

\* A constructed object, no query started
InitConc ==
    \E n \in 0..MaxE : \E ps \in [1..n -> Pairs] : \E en \in [1..n -> BOOLEAN] :
        /\ NonDecreasing(ps, en)
        /\ \E k \in 1..MaxV : \E src \in 1..k :
              LET vs == [i \in 1..k |-> i]
                  es == [i \in 1..n |-> 10 + i]
                  made == Construct(vs, es, ps, en, src)
              IN  /\ made.status = "ok"
                  /\ vertex_ids = vs
                  /\ edge_ids = es
                  /\ edge_vertex_id_pairs = ps
                  /\ edge_enabled = en
                  /\ source_vertex_id = src
                  /\ graph = made.graph
        /\ status = "ok"
        /\ constructed = [status |-> "ok", obj |-> Obj]
        /\ lastCall = NoCall
        /\ lastResult = NoResult
        /\ pc = [c \in Callers |-> "idle"]
        /\ call = [c \in Callers |-> NoCall]
        /\ loc = [c \in Callers |-> NoLocals]
        /\ res = [c \in Callers |-> NoResult]
        /\ overlap = FALSE
        /\ remembered = NoMemory
        /\ tap = NoTap
        /\ a1 = NoA1
        /\ nm = NoNm

\* caller c moves to position p with its locals changed to l; overlap
\* records that two callers have been inside a query at the same time
Goto(c, p, l) ==
    /\ pc' = [pc EXCEPT ![c] = p]
    /\ loc' = [loc EXCEPT ![c] = l]
    /\ overlap' = (overlap \/
                   (p # "done" /\ \E d \in Callers \ {c} :
                                      pc[d] \notin {"idle", "done"}))

\* caller c ends its query with result r
Finish(c, r) ==
    /\ res' = [res EXCEPT ![c] = r]
    /\ Goto(c, "done", loc[c])

frame == <<vertex_ids, edge_ids, edge_vertex_id_pairs, edge_enabled,
           source_vertex_id, status, constructed, seqVars, auxVars>>

\* caller c calls find_downstream_vertices(id): lines 98-108, the early
\* exits, then the endpoints of the edge
BeginDownstream(c) ==
    /\ pc[c] = "idle"
    /\ status = "ok"
    /\ \E id \in QueryIds :
          /\ call' = [call EXCEPT
                        ![c] = [op |-> "find_downstream_vertices", arg |-> id]]
          /\ LET early == DownstreamEarly(Obj, id)
             IN  IF early.kind # "go"
                 THEN Finish(c, early)
                 ELSE /\ Goto(c, "ds_copy",
                              [loc[c] EXCEPT !.pair = edge_vertex_id_pairs[
                                                        Index(edge_ids, id)]])
                      /\ UNCHANGED res
    /\ UNCHANGED <<frame, graph>>

\* line 111: graph_copy = self._graph.copy()
DsCopy(c) ==
    /\ pc[c] = "ds_copy"
    /\ Goto(c, "ds_remove", [loc[c] EXCEPT !.graph_copy = GraphCopy(graph)])
    /\ UNCHANGED <<frame, graph, call, res>>

\* line 112: graph_copy.remove_edge(vertex1, vertex2), which raises when the
\* copy has no such edge
DsRemove(c) ==
    /\ pc[c] = "ds_remove"
    /\ IF ~HasEdge(loc[c].graph_copy, loc[c].pair[1], loc[c].pair[2])
       THEN /\ Finish(c, Raised("NetworkXError"))
            /\ UNCHANGED graph
       ELSE /\ Goto(c, "ds_select",
                    [loc[c] EXCEPT !.graph_copy =
                        CopyAfterRemove(loc[c].graph_copy, loc[c].pair)])
            /\ graph' = StoredAfterRemove(graph, loc[c].pair)
            /\ UNCHANGED res
    /\ UNCHANGED <<frame, call>>

\* lines 115-129, which work on the caller's own graph_copy: its components
\* are listed and the one without the source is returned
DsSelect(c) ==
    /\ pc[c] = "ds_select"
    /\ Finish(c, Returned(DownstreamSelect(
                    ConnectedComponents(loc[c].graph_copy), source_vertex_id)))
    /\ UNCHANGED <<frame, graph, call>>

\* caller c calls find_alternative_edges(id): lines 133-150, the early
\* exits, then disabled_edges, alt_list and edge_status_map
BeginAlternative(c) ==
    /\ pc[c] = "idle"
    /\ status = "ok"
    /\ \E id \in QueryIds :
          /\ call' = [call EXCEPT
                        ![c] = [op |-> "find_alternative_edges", arg |-> id]]
          /\ LET early == AlternativeEarly(Obj, id)
             IN  IF early.kind # "go"
                 THEN Finish(c, early)
                 ELSE /\ Goto(c, "alt_loop",
                              [loc[c] EXCEPT
                                  !.disabled_edges = DisabledEdges(Obj),
                                  !.alt_list = <<>>,
                                  !.edge_status_map = EdgeStatusMap(Obj, id),
                                  !.i = 1])
                      /\ UNCHANGED res
    /\ UNCHANGED <<frame, graph>>

\* lines 154-175: one candidate is tried, or the loop has ended and alt_list
\* is returned
AltLoop(c) ==
    /\ pc[c] = "alt_loop"
    /\ IF loc[c].i > Len(loc[c].disabled_edges)
       THEN Finish(c, Returned(loc[c].alt_list))
       ELSE /\ Goto(c, "alt_loop",
                    [loc[c] EXCEPT
                        !.alt_list = AlternativeStep(Obj, loc[c].edge_status_map,
                                        @, loc[c].disabled_edges[loc[c].i]),
                        !.i = @ + 1])
            /\ UNCHANGED res
    /\ graph' = GraphAfterAlternative(Obj, call[c].arg)
    /\ UNCHANGED <<frame, call>>

NextConc ==
    \E c \in Callers :
        \/ BeginDownstream(c)
        \/ DsCopy(c)
        \/ DsRemove(c)
        \/ DsSelect(c)
        \/ BeginAlternative(c)
        \/ AltLoop(c)

SpecConc == InitConc /\ [][NextConc]_vars

----------------------------------------------------------------------------
(* The network as the claims speak of it: every position of the edge list *)
(* is an edge of its own, whatever its endpoints                          *)

Positions == 1..Len(edge_ids)

EnabledPositions == {i \in Positions : edge_enabled[i]}

DisabledPositions == {i \in Positions : ~edge_enabled[i]}

\* position i joins u and v
Joins(i, u, v) ==
    {edge_vertex_id_pairs[i][1], edge_vertex_id_pairs[i][2]} = {u, v}

\* The vertices reachable from those of S over the edges at positions I
RECURSIVE ReachVia(_, _)
ReachVia(I, S) ==
    LET next == S \cup {v \in Range(vertex_ids) :
                            \E u \in S : \E i \in I : Joins(i, u, v)}
    IN  IF next = S THEN S ELSE ReachVia(I, next)

\* The edges at positions I connect all vertices
SpansAll(I) ==
    \A v \in Range(vertex_ids) : ReachVia(I, {v}) = Range(vertex_ids)

\* No edge at a position of I closes a cycle with the other edges of I
CycleFree(I) ==
    \A i \in I :
        /\ edge_vertex_id_pairs[i][1] # edge_vertex_id_pairs[i][2]
        /\ edge_vertex_id_pairs[i][2] \notin
               ReachVia(I \ {i}, {edge_vertex_id_pairs[i][1]})

SpanningTree(I) == SpansAll(I) /\ CycleFree(I)

\* The last query was op on a declared edge, at position i
Queried(op, i) ==
    /\ status = "ok"
    /\ lastCall.op = op
    /\ lastCall.arg \in Range(edge_ids)
    /\ i = Index(edge_ids, lastCall.arg)

----------------------------------------------------------------------------
(* The checks of __init__ as the claims list them *)

\* check n of the first five is violated by the arguments
EarlyViolated(n) ==
    CASE n = 1 -> \E x \in Range(vertex_ids) : \E i \in 1..Len(edge_ids) :
                      edge_ids[i] = x
      [] n = 2 -> Len(edge_vertex_id_pairs) # Len(edge_ids)
      [] n = 3 -> \E i \in 1..Len(edge_vertex_id_pairs) : \E j \in 1..2 :
                      \A k \in 1..Len(vertex_ids) :
                          vertex_ids[k] # edge_vertex_id_pairs[i][j]
      [] n = 4 -> Len(edge_enabled) # Len(edge_ids)
      [] n = 5 -> \A k \in 1..Len(vertex_ids) : vertex_ids[k] # source_vertex_id

EarlyChecksPass == \A n \in 1..5 : ~EarlyViolated(n)

\* The enabled edges, taken as a simple graph on endpoint sets, have a cycle:
\* a self-loop, or not one endpoint set fewer than there are vertices
SimpleGraphCyclic ==
    LET sets == {{edge_vertex_id_pairs[i][1], edge_vertex_id_pairs[i][2]} :
                    i \in EnabledPositions}
    IN  \/ \E p \in sets : Cardinality(p) = 1
        \/ Cardinality(sets) # Cardinality(Range(vertex_ids)) - 1

CheckError(n) ==
    CASE n = 1 -> "IDNotUniqueError"
      [] n = 2 -> "InputLengthDoesNotMatchError"
      [] n = 3 -> "IDNotFoundError"
      [] n = 4 -> "InputLengthDoesNotMatchError"
      [] n = 5 -> "IDNotFoundError"
      [] n = 6 -> "GraphNotFullyConnectedError"
      [] n = 7 -> "GraphCycleError"

\* The earliest violated check, 0 when there is none
EarliestViolated ==
    IF ~EarlyChecksPass THEN Min({n \in 1..5 : EarlyViolated(n)})
    ELSE IF ~SpansAll(EnabledPositions) THEN 6
    ELSE IF SimpleGraphCyclic THEN 7
    ELSE 0

----------------------------------------------------------------------------
(* Claims *)

\* C1: whenever construction succeeds, the enabled edges, counted by edge
\* identifier, number |V|-1 and connect all vertices.
C1_EnabledEdgesSpanningTree ==
    status = "ok" =>
        /\ Cardinality(EnabledPositions) = Cardinality(Range(vertex_ids)) - 1
        /\ SpansAll(EnabledPositions)

C3_DownstreamIsUnreachableSet ==
    \A i \in Positions :
        (Queried("find_downstream_vertices", i) /\ edge_enabled[i]) =>
            /\ lastResult.kind = "return"
            /\ Range(lastResult.value) =
                  Range(vertex_ids) \
                      ReachVia(EnabledPositions \ {i}, {source_vertex_id})

C5_AlternativesSound ==
    \A i \in Positions :
        (Queried("find_alternative_edges", i) /\ edge_enabled[i]) =>
            \A c \in Positions :
                edge_ids[c] \in Range(lastResult.value) =>
                    SpanningTree((EnabledPositions \ {i}) \cup {c})

\* C6: after any sequence of queries, returning or raising, the stored
\* configuration and the stored graph are as construction left them.
C6_QueriesLeaveObjectUnchanged ==
    status = "ok" => (constructed.status = "ok" /\ constructed.obj = Obj)

\* C6 witness: a query has removed an edge from its working copy and
\* returned the vertices cut off.
C6_Witness ==
    /\ status = "ok"
    /\ lastCall.op = "find_downstream_vertices"
    /\ lastResult.kind = "return"
    /\ lastResult.value # <<>>

\* C8: once the five earlier checks pass, GraphNotFullyConnectedError is
\* raised exactly when the enabled edges alone do not connect all vertices.
C8_NotConnectedIffEnabledEdgesDoNotSpan ==
    (status # "pending" /\ EarlyChecksPass) =>
        (status = "GraphNotFullyConnectedError" <=> ~SpansAll(EnabledPositions))

\* C8 witness: a network joined only through a disabled edge is rejected.
C8_Witness ==
    /\ status = "GraphNotFullyConnectedError"
    /\ EarlyChecksPass
    /\ SpansAll(Positions)

\* C9: on a connected enabled subgraph, GraphCycleError is raised exactly
\* when the enabled edges, told apart by identifier, contain a cycle.
C9_CycleErrorIffEnabledCycle ==
    (status # "pending" /\ EarlyChecksPass /\ SpansAll(EnabledPositions)) =>
        (status = "GraphCycleError" <=> ~CycleFree(EnabledPositions))

\* C10: find_downstream_vertices(e) returns the empty list for every
\* declared edge e whose enabled flag is false.
C10_DisabledEdgeHasNoDownstream ==
    \A i \in Positions :
        (Queried("find_downstream_vertices", i) /\ ~edge_enabled[i]) =>
            lastResult = Returned(<<>>)

\* C10 witness: the query was made on a disabled edge that lies beside an
\* enabled edge on the same endpoints.
C10_Witness ==
    \E i \in Positions :
        /\ Queried("find_downstream_vertices", i)
        /\ ~edge_enabled[i]
        /\ \E j \in EnabledPositions : \E u, v \in Range(vertex_ids) :
              Joins(i, u, v) /\ Joins(j, u, v)


\* The result of caller c's query when it runs alone on the object as
\* constructed
Alone(c) ==
    IF call[c].op = "find_downstream_vertices"
    THEN FindDownstreamVertices(constructed.obj, call[c].arg)
    ELSE FindAlternativeEdges(constructed.obj, call[c].arg)

\* C7: queries interleaved at any granularity on one object return (or
\* raise) what they return when run alone.
C7_InterleavedQueriesAsAlone ==
    \A c \in Callers : pc[c] = "done" => res[c] = Alone(c)

\* C7 witness: two queries that ran inside one another have both returned,
\* one the vertices cut off and one a non-empty list of alternatives.
C7_Witness ==
    /\ pc["a"] = "done" /\ pc["b"] = "done"
    /\ overlap
    /\ call["a"].op = "find_downstream_vertices"
    /\ call["b"].op = "find_alternative_edges"
    /\ res["a"].kind = "return" /\ res["a"].value # <<>>
    /\ res["b"].kind = "return" /\ res["b"].value # <<>>

\* The connected components the edges at positions I leave
Components(I) == {ReachVia(I, {v}) : v \in Range(vertex_ids)}

\* C11: for an enabled edge e, the enabled edges without e leave exactly two
\* connected components, and find_downstream_vertices(e) returns a non-empty
\* proper subset of the vertices (so it never ends in the final return []).
C11_EnabledEdgeSplitsInTwo ==
    \A i \in Positions :
        (Queried("find_downstream_vertices", i) /\ edge_enabled[i]) =>
            /\ Cardinality(Components(EnabledPositions \ {i})) = 2
            /\ lastResult.kind = "return"
            /\ lastResult.value # <<>>
            /\ Range(lastResult.value) \subseteq Range(vertex_ids)
            /\ Range(lastResult.value) # Range(vertex_ids)

\* C12: either query, called with an identifier that is not a declared edge
\* identifier (a vertex identifier included), raises IDNotFoundError and
\* returns nothing.
C12_UndeclaredIdRaisesIDNotFound ==
    (status = "ok" /\ lastCall.op # "none"
        /\ lastCall.arg \notin Range(edge_ids)) =>
            lastResult = Raised("IDNotFoundError")

\* C12 witness: find_alternative_edges was called with a vertex identifier
\* on a network of at least two edges, and raised.
C12_Witness ==
    /\ status = "ok"
    /\ lastCall.op = "find_alternative_edges"
    /\ lastCall.arg \in Range(vertex_ids)
    /\ lastCall.arg \notin Range(edge_ids)
    /\ Len(edge_ids) >= 2
    /\ lastResult = Raised("IDNotFoundError")

Swapped(i, c) == [edge_enabled EXCEPT ![i] = FALSE, ![c] = TRUE]

----------------------------------------------------------------------------
(* Repeated use: queries on one constructed object, some of them made     *)
(* again later.  The edge identifiers are listed in increasing or in      *)
(* decreasing order.                                                      *)

EdgeIdOrders(n) == {[i \in 1..n |-> 10 + i], [i \in 1..n |-> 10 + n + 1 - i]}

\* A constructed object, no query made
InitSeq ==
    \E n \in 0..MaxE : \E ps \in [1..n -> Pairs] : \E en \in [1..n -> BOOLEAN] :
        /\ NonDecreasing(ps, en)
        /\ \E k \in 1..MaxV : \E src \in 1..k : \E es \in EdgeIdOrders(n) :
              LET vs == [i \in 1..k |-> i]
                  made == Construct(vs, es, ps, en, src)
              IN  /\ made.status = "ok"
                  /\ vertex_ids = vs
                  /\ edge_ids = es
                  /\ edge_vertex_id_pairs = ps
                  /\ edge_enabled = en
                  /\ source_vertex_id = src
                  /\ graph = made.graph
        /\ status = "ok"
        /\ constructed = [status |-> "ok", obj |-> Obj]
        /\ lastCall = NoCall
        /\ lastResult = NoResult
        /\ pc = [c \in Callers |-> "idle"]
        /\ call = [c \in Callers |-> NoCall]
        /\ loc = [c \in Callers |-> NoLocals]
        /\ res = [c \in Callers |-> NoResult]
        /\ overlap = FALSE
        /\ remembered = NoMemory
        /\ tap = NoTap
        /\ a1 = NoA1
        /\ nm = NoNm

\* The caller takes the outcome of the query just made and keeps it, to
\* compare a later call with; one outcome is kept
Remember ==
    /\ status = "ok"
    /\ lastCall # NoCall
    /\ remembered = NoMemory
    /\ remembered' = [call |-> lastCall, result |-> lastResult]
    /\ lastCall' = NoCall
    /\ lastResult' = NoResult
    /\ UNCHANGED <<objVars, status, constructed, conVars, tap, a1, nm>>

NextSeq ==
    \/ CallFindDownstreamVertices
    \/ CallFindAlternativeEdges
    \/ Remember

SpecSeq == InitSeq /\ [][NextSeq]_vars

C17_RepeatedQuerySameResult ==
    (remembered.call # NoCall /\ lastCall = remembered.call) =>
        lastResult = remembered.result

\* C17 witness: find_downstream_vertices returned a non-empty list, which
\* was kept, and the same query, made again, has returned.
C17_Witness ==
    /\ remembered.call.op = "find_downstream_vertices"
    /\ remembered.result.kind = "return"
    /\ remembered.result.value # <<>>
    /\ lastCall = remembered.call
    /\ lastResult = remembered.result

----------------------------------------------------------------------------
(* Construction from identifier lists that may hold an identifier twice  *)

\* Vertex lists, up to the order of their entries
VertexIdLists ==
    UNION {{vs \in [1..k -> 1..MaxV] :
               \A i \in 1..(k - 1) : vs[i] <= vs[i + 1]} : k \in 1..MaxV}

\* Edge identifiers are drawn from 1, which is also a vertex identifier, 11
\* and 12
DupEdgeIds == {1, 11, 12}

\* __init__ has stored its arguments (lines 49-53) and not yet checked them
InitDup ==
    \E n \in 0..MaxE : \E ps \in [1..n -> Pairs] : \E en \in [1..n -> BOOLEAN] :
        /\ NonDecreasing(ps, en)
        /\ \E vs \in VertexIdLists : \E src \in Range(vs) :
           \E es \in [1..n -> DupEdgeIds] :
              /\ vertex_ids = vs
              /\ edge_ids = es
              /\ edge_vertex_id_pairs = ps
              /\ edge_enabled = en
              /\ source_vertex_id = src
        /\ graph = EmptyGraph
        /\ status = "pending"
        /\ constructed = [status |-> "pending", obj |-> Obj]
        /\ lastCall = NoCall
        /\ lastResult = NoResult
        /\ pc = [c \in Callers |-> "idle"]
        /\ call = [c \in Callers |-> NoCall]
        /\ loc = [c \in Callers |-> NoLocals]
        /\ res = [c \in Callers |-> NoResult]
        /\ overlap = FALSE
        /\ remembered = NoMemory
        /\ tap = NoTap
        /\ a1 = NoA1
        /\ nm = NoNm

NextDup == NewGraphProcessor

SpecDup == InitDup /\ [][NextDup]_vars

\* the list s holds no entry twice
NoRepeat(s) == \A i \in 1..Len(s) : \A j \in 1..Len(s) : i # j => s[i] # s[j]

\* C18: whenever construction succeeds, no two edges share an identifier, no
\* two vertices share an identifier, and no identifier is both a vertex's and
\* an edge's; an input that breaks one of these is rejected.
C18_AllIdentifiersUnique ==
    status = "ok" =>
        /\ NoRepeat(edge_ids)
        /\ NoRepeat(vertex_ids)
        /\ Range(vertex_ids) \cap Range(edge_ids) = {}

----------------------------------------------------------------------------
(* The network of the tests: five vertices, six edges, source 10, with    *)
(* every choice of enabled flags                                          *)

ScenarioVertexIds == <<0, 2, 4, 6, 10>>
ScenarioEdgeIds == <<1, 3, 5, 7, 8, 9>>
ScenarioPairs == <<<<0, 2>>, <<0, 4>>, <<0, 6>>, <<2, 4>>, <<4, 6>>, <<2, 10>>>>
ScenarioSource == ScenarioVertexIds[5]

\* The identifiers a query is called with here: the six edges, and 11,
\* which is not declared
ScenarioQueryIds == Range(ScenarioEdgeIds) \cup {11}

\* __init__ has stored its arguments (lines 49-53) and not yet checked them
InitScenario ==
    /\ vertex_ids = ScenarioVertexIds
    /\ edge_ids = ScenarioEdgeIds
    /\ edge_vertex_id_pairs = ScenarioPairs
    /\ edge_enabled \in [1..Len(ScenarioEdgeIds) -> BOOLEAN]
    /\ source_vertex_id = ScenarioSource
    /\ graph = EmptyGraph
    /\ status = "pending"
    /\ constructed = [status |-> "pending", obj |-> Obj]
    /\ lastCall = NoCall
    /\ lastResult = NoResult
    /\ pc = [c \in Callers |-> "idle"]
    /\ call = [c \in Callers |-> NoCall]
    /\ loc = [c \in Callers |-> NoLocals]
    /\ res = [c \in Callers |-> NoResult]
    /\ overlap = FALSE
    /\ remembered = NoMemory
    /\ tap = NoTap
    /\ a1 = NoA1
    /\ nm = NoNm

\* gp.find_downstream_vertices(id)
ScenarioFindDownstreamVertices ==
    /\ status = "ok"
    /\ \E id \in ScenarioQueryIds :
          /\ lastCall' = [op |-> "find_downstream_vertices", arg |-> id]
          /\ lastResult' = FindDownstreamVertices(Obj, id)
          /\ graph' = GraphAfterDownstream(Obj, id)
    /\ UNCHANGED <<vertex_ids, edge_ids, edge_vertex_id_pairs, edge_enabled,
                   source_vertex_id, status, constructed, conVars, auxVars>>

\* gp.find_alternative_edges(id)
ScenarioFindAlternativeEdges ==
    /\ status = "ok"
    /\ \E id \in ScenarioQueryIds :
          /\ lastCall' = [op |-> "find_alternative_edges", arg |-> id]
          /\ lastResult' = FindAlternativeEdges(Obj, id)
          /\ graph' = GraphAfterAlternative(Obj, id)
    /\ UNCHANGED <<vertex_ids, edge_ids, edge_vertex_id_pairs, edge_enabled,
                   source_vertex_id, status, constructed, conVars, auxVars>>

NextScenario ==
    \/ NewGraphProcessor
    \/ ScenarioFindDownstreamVertices
    \/ ScenarioFindAlternativeEdges

SpecScenario == InitScenario /\ [][NextScenario]_vars

\* The arguments are those of the scenario, with exactly the edges of ids
\* enabled
ScenarioWith(ids) ==
    /\ vertex_ids = <<0, 2, 4, 6, 10>>
    /\ edge_ids = <<1, 3, 5, 7, 8, 9>>
    /\ edge_vertex_id_pairs =
          <<<<0, 2>>, <<0, 4>>, <<0, 6>>, <<2, 4>>, <<4, 6>>, <<2, 10>>>>
    /\ source_vertex_id = 10
    /\ {edge_ids[i] : i \in EnabledPositions} = ids

\* C19: in the scenario, construction with only edges 1, 5, 9 enabled raises
\* GraphNotFullyConnectedError; with 1, 5, 7, 9 enabled it succeeds, and
\* find_downstream_vertices(7) returns exactly the vertex 4.
C19_ScenarioOutcomes ==
    status # "pending" =>
        /\ ScenarioWith({1, 5, 9}) => status = "GraphNotFullyConnectedError"
        /\ ScenarioWith({1, 5, 7, 9}) =>
              /\ status = "ok"
              /\ lastCall = [op |-> "find_downstream_vertices", arg |-> 7] =>
                    /\ lastResult.kind = "return"
                    /\ Range(lastResult.value) = {4}

\* C19 witness: the network with 1, 5, 7, 9 enabled was constructed and
\* find_downstream_vertices(7) has returned.
C19_Witness ==
    /\ status = "ok"
    /\ ScenarioWith({1, 5, 7, 9})
    /\ lastCall = [op |-> "find_downstream_vertices", arg |-> 7]
    /\ lastResult = Returned(<<4>>)

----------------------------------------------------------------------------
(* optimal_tap.py: optimal_tap_position.  The power-flow runs are not     *)
(* modelled; what they yield at each tap position is an input: the sum of *)
(* the Total_Loss column, the mean of |Max_Voltage - 1| and the mean of   *)
(* |Max_Voltage_Node - 1|.                                                *)

\* float("inf"): above every value a metric takes
Inf == 999

\* The values a metric takes at a tap position
MetricValues == {0, 1}

\* The values optimize_by is called with
OptimizeByValues == {0, 1, 5}

\* The tap positions between tap_max and tap_min, both included
TapRange(tap_min, tap_max) ==
    IF tap_max <= tap_min THEN tap_max..tap_min ELSE tap_min..tap_max

\* range(pos_max, pos_min + 1) has not run out at tap_pos
InRange(tap_pos, pos_min) == tap_pos < pos_min + 1

\* The function has been called and has not yet run a statement: its
\* locals are not bound yet, which 0 and Inf stand for (none is read before
\* it is assigned: the first turn of the loop is the one at pos_max)
InitTap ==
    /\ \E tap_min \in 1..MaxTap : \E tap_max \in 1..MaxTap :
       \E optimize_by \in OptimizeByValues :
       \E loss \in [TapRange(tap_min, tap_max) -> MetricValues] :
       \E vdev \in [TapRange(tap_min, tap_max) -> MetricValues] :
       \E ndev \in [TapRange(tap_min, tap_max) -> MetricValues] :
          tap = [pc |-> "called",
                 optimize_by |-> optimize_by,
                 tap_min |-> tap_min,
                 tap_max |-> tap_max,
                 total_loss_sum |-> loss,
                 max_voltage_dev |-> vdev,
                 max_voltage_node_dev |-> ndev,
                 pos_min |-> 0,
                 pos_max |-> 0,
                 tap_pos |-> 0,
                 total_losses |-> 0,
                 total_losses_min |-> Inf,
                 average_dev_max_node_min |-> Inf,
                 total_losses_min_tap_pos |-> 0,
                 average_dev_min_tap_pos |-> 0,
                 result |-> 0]
    /\ vertex_ids = <<>>
    /\ edge_ids = <<>>
    /\ edge_vertex_id_pairs = <<>>
    /\ edge_enabled = <<>>
    /\ source_vertex_id = 0
    /\ graph = EmptyGraph
    /\ status = "pending"
    /\ constructed = [status |-> "pending", obj |-> Obj]
    /\ lastCall = NoCall
    /\ lastResult = NoResult
    /\ pc = [c \in Callers |-> "idle"]
    /\ call = [c \in Callers |-> NoCall]
    /\ loc = [c \in Callers |-> NoLocals]
    /\ res = [c \in Callers |-> NoResult]
    /\ overlap = FALSE
    /\ remembered = NoMemory
    /\ a1 = NoA1
    /\ nm = NoNm

tapFrame == <<objVars, status, constructed, seqVars, conVars, remembered, a1,
             nm>>

\* lines 48-64: the test of optimize_by, then the locals before the loop
TapBegin ==
    /\ tap.pc = "called"
    /\ IF tap.optimize_by \notin {0, 1}
       THEN tap' = [tap EXCEPT !.pc = "InvalidOptimizeInput"]
       ELSE tap' = [tap EXCEPT !.pc = "loop",
                               !.pos_min = tap.tap_min,
                               !.pos_max = tap.tap_max,
                               !.total_losses_min = Inf,
                               !.average_dev_max_node_min = Inf,
                               !.total_losses_min_tap_pos = tap.tap_max,
                               !.average_dev_min_tap_pos = tap.tap_max,
                               !.tap_pos = tap.tap_max]
    /\ UNCHANGED tapFrame

\* lines 79-93: the locals after one turn of the loop; total_losses is
\* assigned at pos_max only (line 80; line 77 is a comment) and keeps that
\* value in the later turns
TurnLocals(t, average_dev_max_node) ==
    IF t.tap_pos = t.pos_max
    THEN LET total_losses == t.total_loss_sum[t.tap_pos]
         IN  [t EXCEPT !.total_losses = total_losses,
                       !.total_losses_min = total_losses,
                       !.total_losses_min_tap_pos = t.tap_pos,
                       !.average_dev_max_node_min = average_dev_max_node,
                       !.average_dev_min_tap_pos = t.tap_pos]
    ELSE LET lower == t.total_losses < t.total_losses_min
             nearer == average_dev_max_node < t.average_dev_max_node_min
         IN  [t EXCEPT
                !.total_losses_min = IF lower THEN t.total_losses ELSE @,
                !.total_losses_min_tap_pos = IF lower THEN t.tap_pos ELSE @,
                !.average_dev_max_node_min =
                    IF nearer THEN average_dev_max_node ELSE @,
                !.average_dev_min_tap_pos = IF nearer THEN t.tap_pos ELSE @]

\* lines 66-93: one turn of the loop over range(pos_max, pos_min + 1);
\* average_dev_max_node is taken from the Max_Voltage_Node column (line 76)
TapTurn ==
    /\ tap.pc = "loop"
    /\ InRange(tap.tap_pos, tap.pos_min)
    /\ tap' = [TurnLocals(tap, tap.max_voltage_node_dev[tap.tap_pos])
                  EXCEPT !.tap_pos = tap.tap_pos + 1]
    /\ UNCHANGED tapFrame

\* lines 95-99: the loop has ended, the position of the chosen metric is
\* returned
TapReturn ==
    /\ tap.pc = "loop"
    /\ ~InRange(tap.tap_pos, tap.pos_min)
    /\ tap' = [tap EXCEPT !.pc = "returned",
                          !.result = IF tap.optimize_by = 0
                                     THEN tap.total_losses_min_tap_pos
                                     ELSE tap.average_dev_min_tap_pos]
    /\ UNCHANGED tapFrame

NextTap ==
    \/ TapBegin
    \/ TapTurn
    \/ TapReturn

SpecTap == InitTap /\ [][NextTap]_vars

\* position p is one of the range at which the metric is lowest
LowestAt(metric, p) ==
    /\ p \in DOMAIN metric
    /\ \A q \in DOMAIN metric : metric[p] <= metric[q]

\* C20: with optimize_by = 0 the returned position is one between tap_max
\* and tap_min at which the summed line losses are lowest; with
\* optimize_by = 1 it is one at which the average voltage deviation is
\* lowest.
C20_ReturnsBestTapPosition ==
    tap.pc = "returned" =>
        /\ tap.optimize_by = 0 => LowestAt(tap.total_loss_sum, tap.result)
        /\ tap.optimize_by = 1 => LowestAt(tap.max_voltage_dev, tap.result)

----------------------------------------------------------------------------
(* Further claims on construction and on the two queries *)

\* C30: with an empty vertex list construction fails with
\* InputLengthDoesNotMatchError or IDNotFoundError, before the connectivity
\* check; so a constructed object has at least one vertex, and its source is
\* one of its vertices.
C30_EmptyVertexListFailsEarly ==
    /\ (status # "pending" /\ Len(vertex_ids) = 0) =>
          status \in {"InputLengthDoesNotMatchError", "IDNotFoundError"}
    /\ status = "ok" =>
          /\ Len(vertex_ids) >= 1
          /\ source_vertex_id \in Range(vertex_ids)

\* C30 witness: construction from empty lists, where only the lookup of the
\* source can fail, has raised.
C30_Witness ==
    /\ status = "IDNotFoundError"
    /\ Len(vertex_ids) = 0
    /\ Len(edge_ids) = 0
    /\ Len(edge_vertex_id_pairs) = 0
    /\ Len(edge_enabled) = 0

----------------------------------------------------------------------------
(* Queries on constructed objects of up to MaxE + 1 edges, so that a      *)
(* network of MaxV vertices has edges beside a spanning tree and one      *)
(* more                                                                   *)

\* A constructed object, no query made
InitWide ==
    \E n \in 0..(MaxE + 1) : \E ps \in [1..n -> Pairs] :
    \E en \in [1..n -> BOOLEAN] :
        /\ NonDecreasing(ps, en)
        /\ \E k \in 1..MaxV : \E src \in 1..k :
              LET vs == [i \in 1..k |-> i]
                  es == [i \in 1..n |-> 10 + i]
                  made == Construct(vs, es, ps, en, src)
              IN  /\ made.status = "ok"
                  /\ vertex_ids = vs
                  /\ edge_ids = es
                  /\ edge_vertex_id_pairs = ps
                  /\ edge_enabled = en
                  /\ source_vertex_id = src
                  /\ graph = made.graph
        /\ status = "ok"
        /\ constructed = [status |-> "ok", obj |-> Obj]
        /\ lastCall = NoCall
        /\ lastResult = NoResult
        /\ pc = [c \in Callers |-> "idle"]
        /\ call = [c \in Callers |-> NoCall]
        /\ loc = [c \in Callers |-> NoLocals]
        /\ res = [c \in Callers |-> NoResult]
        /\ overlap = FALSE
        /\ remembered = NoMemory
        /\ tap = NoTap
        /\ a1 = NoA1
        /\ nm = NoNm

NextWide ==
    \/ CallFindDownstreamVertices
    \/ CallFindAlternativeEdges

SpecWide == InitWide /\ [][NextWide]_vars

\* The disabled edges with exactly one endpoint among the vertices of S
CutEdges(S) ==
    {edge_ids[c] : c \in {d \in DisabledPositions :
        (edge_vertex_id_pairs[d][1] \in S) # (edge_vertex_id_pairs[d][2] \in S)}}

\* C25: for an enabled edge e, the edges find_alternative_edges(e) returns
\* are exactly the disabled edges with one endpoint inside and one outside
\* find_downstream_vertices(e).
C25_AlternativesAreCutEdges ==
    \A i \in Positions :
        (Queried("find_alternative_edges", i) /\ edge_enabled[i]) =>
            /\ lastResult.kind = "return"
            /\ Range(lastResult.value) =
                  CutEdges(Range(FindDownstreamVertices(Obj, edge_ids[i]).value))

\* The object constructed from the same arguments with the enabled list en
ObjWith(en) ==
    [Obj EXCEPT !.edge_enabled = en,
                !.graph = Construct(vertex_ids, edge_ids, edge_vertex_id_pairs,
                                    en, source_vertex_id).graph]

C28_DownstreamSetsLaminar ==
    \A i \in Positions :
        (Queried("find_downstream_vertices", i) /\ edge_enabled[i]) =>
            /\ lastResult.kind = "return"
            /\ (edge_vertex_id_pairs[i][1] \in Range(lastResult.value))
                  # (edge_vertex_id_pairs[i][2] \in Range(lastResult.value))
            /\ \A j \in EnabledPositions :
                  LET A == Range(lastResult.value)
                      B == Range(FindDownstreamVertices(Obj, edge_ids[j]).value)
                  IN  \/ A \cap B = {}
                      \/ A \subseteq B
                      \/ B \subseteq A

\* C28 witness: the downstream set of the queried edge strictly holds the
\* non-empty downstream set of another enabled edge.
C28_Witness ==
    \E i \in Positions :
        /\ Queried("find_downstream_vertices", i)
        /\ edge_enabled[i]
        /\ lastResult.kind = "return"
        /\ \E j \in EnabledPositions :
              LET B == Range(FindDownstreamVertices(Obj, edge_ids[j]).value)
              IN  B # {} /\ B \subseteq Range(lastResult.value)
                         /\ B # Range(lastResult.value)

\* The object constructed from the same arguments with the source s
ObjFrom(s) == [Obj EXCEPT !.source_vertex_id = s]

\* C29: find_alternative_edges gives the same list, or raises the same
\* error, on objects that differ in the source vertex only.
C29_AlternativesIgnoreSource ==
    (status = "ok" /\ lastCall.op = "find_alternative_edges") =>
        \A s \in Range(vertex_ids) :
            FindAlternativeEdges(ObjFrom(s), lastCall.arg) = lastResult

\* C29 witness: find_alternative_edges has returned an alternative for an
\* edge whose downstream vertices are others when the source is another
\* vertex.
C29_Witness ==
    /\ status = "ok"
    /\ lastCall.op = "find_alternative_edges"
    /\ lastResult.kind = "return"
    /\ lastResult.value # <<>>
    /\ \E s \in Range(vertex_ids) :
          /\ FindAlternativeEdges(ObjFrom(s), lastCall.arg) = lastResult
          /\ FindDownstreamVertices(ObjFrom(s), lastCall.arg)
                # FindDownstreamVertices(Obj, lastCall.arg)

----------------------------------------------------------------------------
(* Queries on constructed objects whose first vertex identifier, 9, is    *)
(* larger than the 8 slots of a small set's hash table                    *)

OrderIds(k) == [i \in 1..k |-> IF i = 1 THEN 9 ELSE i]

\* A constructed object, no query made
InitOrder ==
    \E n \in 0..MaxE : \E ps \in [1..n -> Pairs] : \E en \in [1..n -> BOOLEAN] :
        /\ NonDecreasing(ps, en)
        /\ \E k \in 1..MaxV : \E src \in 1..k :
              LET vs == OrderIds(k)
                  es == [i \in 1..n |-> 10 + i]
                  named == [i \in 1..n |-> <<OrderIds(MaxV)[ps[i][1]],
                                             OrderIds(MaxV)[ps[i][2]]>>]
                  made == Construct(vs, es, named, en, vs[src])
              IN  /\ made.status = "ok"
                  /\ vertex_ids = vs
                  /\ edge_ids = es
                  /\ edge_vertex_id_pairs = named
                  /\ edge_enabled = en
                  /\ source_vertex_id = vs[src]
                  /\ graph = made.graph
        /\ status = "ok"
        /\ constructed = [status |-> "ok", obj |-> Obj]
        /\ lastCall = NoCall
        /\ lastResult = NoResult
        /\ pc = [c \in Callers |-> "idle"]
        /\ call = [c \in Callers |-> NoCall]
        /\ loc = [c \in Callers |-> NoLocals]
        /\ res = [c \in Callers |-> NoResult]
        /\ overlap = FALSE
        /\ remembered = NoMemory
        /\ tap = NoTap
        /\ a1 = NoA1
        /\ nm = NoNm

NextOrder ==
    \/ CallFindDownstreamVertices
    \/ CallFindAlternativeEdges

SpecOrder == InitOrder /\ [][NextOrder]_vars

\* C23: the list find_downstream_vertices returns is in ascending order of
\* vertex identifier, no vertex twice.
C23_DownstreamListAscending ==
    (status = "ok" /\ lastCall.op = "find_downstream_vertices"
        /\ lastResult.kind = "return") =>
            \A a \in 1..Len(lastResult.value) :
                \A b \in 1..Len(lastResult.value) :
                    a < b => lastResult.value[a] < lastResult.value[b]

----------------------------------------------------------------------------
(* assignment1.py: the GraphProcessor whose find_downstream_vertices      *)
(* removes the edge from self._graph and adds it again.  Its __init__     *)
(* (lines 37-90) and its find_alternative_edges (lines 123-218) are,      *)
(* statement for statement, those of graph_processor.py.                  *)

\* The "id" attribute of an edge added without one
NoId == 0

\* G.add_edge(u, v) without attributes: an existing edge keeps its
\* attributes, a new one has none
AddEdgeNoAttr(g, u, v) ==
    IF HasEdge(g, u, v) THEN g ELSE AddEdge(g, u, v, NoId)

\* assignment1.GraphProcessor.__init__
A1Construct(vs, es, ps, en, src) == Construct(vs, es, ps, en, src)

\* The assignment1 object built from the same arguments
A1Obj == [Obj EXCEPT !.graph = a1.graph]

\* lines 95-101: an unknown identifier raises, a disabled edge returns []
A1DownstreamEarly(o, first_edge_id) ==
    IF first_edge_id \notin Range(o.edge_ids) THEN Raised("IDNotFoundError")
    ELSE IF ~o.edge_enabled[Index(o.edge_ids, first_edge_id)] THEN Returned(<<>>)
    ELSE [kind |-> "go", value |-> <<>>]

\* line 105: self._graph after self._graph.remove_edge(vertex1, vertex2)
A1AfterRemove(g, pair) == RemoveEdge(g, pair[1], pair[2])

\* Faulty variant: the edge is not added again.
A1AfterRestoreMissing(g, pair) == g

\* line 111: self._graph after self._graph.add_edge(vertex1, vertex2)
A1AfterRestore(g, pair) == AddEdgeNoAttr(g, pair[1], pair[2])

\* find_downstream_vertices(first_edge_id) of assignment1.py run from start
\* to end
A1FindDownstreamVertices(o, first_edge_id) ==
    LET early == A1DownstreamEarly(o, first_edge_id)
    IN  IF early.kind # "go" THEN early
        ELSE LET pair == o.edge_vertex_id_pairs[Index(o.edge_ids, first_edge_id)]
             IN  IF ~HasEdge(o.graph, pair[1], pair[2]) THEN Raised("NetworkXError")
                 ELSE Returned(DownstreamSelect(
                         ConnectedComponents(A1AfterRemove(o.graph, pair)),
                         o.source_vertex_id))

\* self._graph once it has ended
A1GraphAfterDownstream(o, first_edge_id) ==
    IF A1DownstreamEarly(o, first_edge_id).kind # "go" THEN o.graph
    ELSE LET pair == o.edge_vertex_id_pairs[Index(o.edge_ids, first_edge_id)]
         IN  IF ~HasEdge(o.graph, pair[1], pair[2]) THEN o.graph
             ELSE A1AfterRestore(A1AfterRemove(o.graph, pair), pair)

\* find_alternative_edges(disabled_edge_id) of assignment1.py
A1FindAlternativeEdges(o, disabled_edge_id) ==
    FindAlternativeEdges(o, disabled_edge_id)

\* Both classes are given the same arguments, stored and not yet checked
InitPair ==
    \E n \in 0..MaxE : \E ps \in [1..n -> Pairs] : \E en \in [1..n -> BOOLEAN] :
        /\ NonDecreasing(ps, en)
        /\ \E k \in 0..MaxV : \E src \in 1..MaxV : \E es \in EdgeIdLists(n) :
           \E ps2 \in Shorter(ps) : \E en2 \in Shorter(en) :
              /\ vertex_ids = [i \in 1..k |-> i]
              /\ edge_ids = es
              /\ edge_vertex_id_pairs = ps2
              /\ edge_enabled = en2
              /\ source_vertex_id = src
        /\ graph = EmptyGraph
        /\ status = "pending"
        /\ constructed = [status |-> "pending", obj |-> Obj]
        /\ lastCall = NoCall
        /\ lastResult = NoResult
        /\ pc = [c \in Callers |-> "idle"]
        /\ call = [c \in Callers |-> NoCall]
        /\ loc = [c \in Callers |-> NoLocals]
        /\ res = [c \in Callers |-> NoResult]
        /\ overlap = FALSE
        /\ remembered = NoMemory
        /\ tap = NoTap
        /\ a1 = [status |-> "pending", graph |-> EmptyGraph, result |-> NoResult]
        /\ nm = NoNm

pairFrame == <<vertex_ids, edge_ids, edge_vertex_id_pairs, edge_enabled,
               source_vertex_id, conVars, remembered, tap, nm>>

\* Both constructors are called
NewBothProcessors ==
    /\ status = "pending"
    /\ LET made == Construct(vertex_ids, edge_ids, edge_vertex_id_pairs,
                             edge_enabled, source_vertex_id)
           made1 == A1Construct(vertex_ids, edge_ids, edge_vertex_id_pairs,
                                edge_enabled, source_vertex_id)
       IN  /\ status' = made.status
           /\ graph' = made.graph
           /\ constructed' = [status |-> made.status,
                              obj |-> [Obj EXCEPT !.graph = made.graph]]
           /\ a1' = [a1 EXCEPT !.status = made1.status, !.graph = made1.graph]
    /\ UNCHANGED <<pairFrame, seqVars>>

\* find_downstream_vertices(id) is called on both objects
BothFindDownstreamVertices ==
    /\ status = "ok"
    /\ a1.status = "ok"
    /\ \E id \in QueryIds :
          /\ lastCall' = [op |-> "find_downstream_vertices", arg |-> id]
          /\ lastResult' = FindDownstreamVertices(Obj, id)
          /\ graph' = GraphAfterDownstream(Obj, id)
          /\ a1' = [a1 EXCEPT !.result = A1FindDownstreamVertices(A1Obj, id),
                              !.graph = A1GraphAfterDownstream(A1Obj, id)]
    /\ UNCHANGED <<pairFrame, status, constructed>>

\* find_alternative_edges(id) is called on both objects
BothFindAlternativeEdges ==
    /\ status = "ok"
    /\ a1.status = "ok"
    /\ \E id \in QueryIds :
          /\ lastCall' = [op |-> "find_alternative_edges", arg |-> id]
          /\ lastResult' = FindAlternativeEdges(Obj, id)
          /\ graph' = GraphAfterAlternative(Obj, id)
          /\ a1' = [a1 EXCEPT !.result = A1FindAlternativeEdges(A1Obj, id)]
    /\ UNCHANGED <<pairFrame, status, constructed>>

NextPair ==
    \/ NewBothProcessors
    \/ BothFindDownstreamVertices
    \/ BothFindAlternativeEdges

SpecPair == InitPair /\ [][NextPair]_vars

\* The graph assignment1's __init__ built from the arguments
A1Built ==
    A1Construct(vertex_ids, edge_ids, edge_vertex_id_pairs, edge_enabled,
                source_vertex_id).graph

\* C21: after a find_downstream_vertices call of assignment1.py has
\* returned, the stored graph has the edges it had before, each with the
\* edge-identifier tag construction gave it.
C21_RemovalReversedWithTags ==
    (a1.status = "ok" /\ lastCall.op = "find_downstream_vertices") =>
        /\ DOMAIN a1.graph.edges = DOMAIN A1Built.edges
        /\ \A p \in DOMAIN A1Built.edges : a1.graph.edges[p] = A1Built.edges[p]

\* C26: both classes raise the same error or both construct, and after any
\* sequence of queries find_downstream_vertices gives the same vertex set
\* and find_alternative_edges the same list in both, or the same error.
C26_ImplementationsAgree ==
    /\ status # "pending" => a1.status = status
    /\ (status = "ok" /\ lastCall.op # "none") =>
          /\ a1.result.kind = lastResult.kind
          /\ lastCall.op = "find_downstream_vertices" =>
                Range(a1.result.value) = Range(lastResult.value)
          /\ lastCall.op = "find_alternative_edges" =>
                a1.result.value = lastResult.value

\* C26 witness: both objects have returned the same non-empty list from
\* find_downstream_vertices after the assignment1 object had removed and
\* added an edge in an earlier call.
C26_Witness ==
    /\ status = "ok"
    /\ lastCall.op = "find_downstream_vertices"
    /\ lastResult.kind = "return"
    /\ lastResult.value # <<>>
    /\ a1.result = lastResult
    /\ \E p \in DOMAIN a1.graph.edges :
          /\ a1.graph.edges[p] = NoId
          /\ p # Range(edge_vertex_id_pairs[Index(edge_ids, lastCall.arg)])

----------------------------------------------------------------------------
(* assignment1.py under concurrent use: several callers run               *)
(* find_downstream_vertices on the same object, interleaved statement by  *)
(* statement, all of them on the one self._graph                          *)

\* A constructed assignment1 object, no query started
InitA1Conc ==
    \E n \in 0..MaxE : \E ps \in [1..n -> Pairs] : \E en \in [1..n -> BOOLEAN] :
        /\ NonDecreasing(ps, en)
        /\ \E k \in 1..MaxV : \E src \in 1..k :
              LET vs == [i \in 1..k |-> i]
                  es == [i \in 1..n |-> 10 + i]
                  made == A1Construct(vs, es, ps, en, src)
              IN  /\ made.status = "ok"
                  /\ vertex_ids = vs
                  /\ edge_ids = es
                  /\ edge_vertex_id_pairs = ps
                  /\ edge_enabled = en
                  /\ source_vertex_id = src
                  /\ graph = made.graph
                  /\ a1 = [status |-> "ok", graph |-> made.graph,
                           result |-> NoResult]
        /\ status = "ok"
        /\ constructed = [status |-> "ok", obj |-> Obj]
        /\ lastCall = NoCall
        /\ lastResult = NoResult
        /\ pc = [c \in Callers |-> "idle"]
        /\ call = [c \in Callers |-> NoCall]
        /\ loc = [c \in Callers |-> NoLocals]
        /\ res = [c \in Callers |-> NoResult]
        /\ overlap = FALSE
        /\ remembered = NoMemory
        /\ tap = NoTap
        /\ nm = NoNm

a1Frame == <<objVars, status, constructed, seqVars, remembered, tap, nm>>

\* caller c calls find_downstream_vertices(id): lines 95-104, the early
\* exits, then the endpoints of the edge
A1Begin(c) ==
    /\ pc[c] = "idle"
    /\ a1.status = "ok"
    /\ \E id \in QueryIds :
          /\ call' = [call EXCEPT
                        ![c] = [op |-> "find_downstream_vertices", arg |-> id]]
          /\ LET early == A1DownstreamEarly(A1Obj, id)
             IN  IF early.kind # "go"
                 THEN Finish(c, early)
                 ELSE /\ Goto(c, "a1_remove",
                              [loc[c] EXCEPT !.pair = edge_vertex_id_pairs[
                                                        Index(edge_ids, id)]])
                      /\ UNCHANGED res
    /\ UNCHANGED <<a1Frame, a1>>

\* line 105: self._graph.remove_edge(vertex1, vertex2), which raises when
\* the graph has no such edge
A1Remove(c) ==
    /\ pc[c] = "a1_remove"
    /\ IF ~HasEdge(a1.graph, loc[c].pair[1], loc[c].pair[2])
       THEN /\ Finish(c, Raised("NetworkXError"))
            /\ UNCHANGED a1
       ELSE /\ Goto(c, "a1_components", loc[c])
            /\ a1' = [a1 EXCEPT !.graph = A1AfterRemove(@, loc[c].pair)]
            /\ UNCHANGED res
    /\ UNCHANGED <<a1Frame, call>>

\* line 108: connected = list(nx.connected_components(self._graph))
A1Components(c) ==
    /\ pc[c] = "a1_components"
    /\ Goto(c, "a1_restore",
            [loc[c] EXCEPT !.connected = ConnectedComponents(a1.graph)])
    /\ UNCHANGED <<a1Frame, a1, call, res>>

\* line 111: self._graph.add_edge(vertex1, vertex2)
A1Restore(c) ==
    /\ pc[c] = "a1_restore"
    /\ Goto(c, "a1_select", loc[c])
    /\ a1' = [a1 EXCEPT !.graph = A1AfterRestore(@, loc[c].pair)]
    /\ UNCHANGED <<a1Frame, call, res>>

\* lines 114-121: the component with the source is found and the first
\* other one is returned as a list
A1Select(c) ==
    /\ pc[c] = "a1_select"
    /\ Finish(c, Returned(DownstreamSelect(loc[c].connected, source_vertex_id)))
    /\ UNCHANGED <<a1Frame, a1, call>>

NextA1Conc ==
    \E c \in Callers :
        \/ A1Begin(c)
        \/ A1Remove(c)
        \/ A1Components(c)
        \/ A1Restore(c)
        \/ A1Select(c)

SpecA1Conc == InitA1Conc /\ [][NextA1Conc]_vars

\* What find_downstream_vertices(id) of assignment1.py gives on the
\* constructed object when no other call runs
A1Alone(id) == A1FindDownstreamVertices(constructed.obj, id)

\* C22: in assignment1.py, each of two interleaved find_downstream_vertices
\* calls ends as it does when run alone, with the same vertex set and no
\* error, and when both have ended the stored graph has the edges of the
\* constructed one.
C22_InterleavedCallsAsAlone ==
    /\ \A c \in Callers :
          pc[c] = "done" =>
              /\ res[c].kind = A1Alone(call[c].arg).kind
              /\ Range(res[c].value) = Range(A1Alone(call[c].arg).value)
              /\ res[c].kind = "raise" => res[c].value = "IDNotFoundError"
    /\ (\A c \in Callers : pc[c] = "done") =>
          DOMAIN a1.graph.edges = DOMAIN constructed.obj.graph.edges

----------------------------------------------------------------------------
(* n1_calculation.nm_function: the alternatives of a line are found by    *)
(* the GraphProcessor, and the network is simulated once with each of     *)
(* them switched in.  The power flow itself is not modelled: of a turn    *)
(* only the data handed to it, new_data, is kept.                         *)

\* The identifier of the transformer in the input data
TransformerId == 20

\* One row of input_data["line"]
Line(id, p, fs, ts) ==
    [id |-> id, from_node |-> p[1], to_node |-> p[2],
     from_status |-> fs, to_status |-> ts]

\* Line tables are enumerated up to the order of their rows
LineRank(l) ==
    4 * (l.from_node * (MaxV + 1) + l.to_node) + 2 * l.from_status + l.to_status

\* The line tables of up to MaxE lines, with identifiers 11, 12, ...
LineTables ==
    UNION {{[i \in 1..n |-> Line(10 + i, ps[i], fs[i], ts[i])] :
               ps \in [1..n -> Pairs], fs \in [1..n -> {0, 1}],
               ts \in [1..n -> {0, 1}]} : n \in 0..MaxE}

\* nm_function is called: the input data and the metadata have been loaded
\* (lines 77-84)
InitNm ==
    /\ \E lines \in LineTables : \E bus \in 1..MaxV : \E id \in QueryIds :
          /\ \A i \in 1..(Len(lines) - 1) :
                LineRank(lines[i]) <= LineRank(lines[i + 1])
          /\ nm = [pc |-> "loaded",
                   given_lineid |-> id,
                   input_data |-> [node |-> [i \in 1..MaxV |-> i],
                                   line |-> lines,
                                   transformer |-> <<TransformerId>>],
                   loaded |-> lines,
                   lv_busbar |-> bus,
                   alt_list |-> <<>>,
                   i |-> 0,
                   new_data |-> <<>>,
                   rows |-> <<>>]
    /\ vertex_ids = <<>>
    /\ edge_ids = <<>>
    /\ edge_vertex_id_pairs = <<>>
    /\ edge_enabled = <<>>
    /\ source_vertex_id = 0
    /\ graph = EmptyGraph
    /\ status = "pending"
    /\ constructed = [status |-> "pending", obj |-> Obj]
    /\ lastCall = NoCall
    /\ lastResult = NoResult
    /\ pc = [c \in Callers |-> "idle"]
    /\ call = [c \in Callers |-> NoCall]
    /\ loc = [c \in Callers |-> NoLocals]
    /\ res = [c \in Callers |-> NoResult]
    /\ overlap = FALSE
    /\ remembered = NoMemory
    /\ tap = NoTap
    /\ a1 = NoA1

nmFrame == <<constructed, seqVars, conVars, remembered, tap, a1>>

\* lines 93-95: a line is enabled when it is connected on both sides
EdgeEnabledInit(lines) ==
    [i \in 1..Len(lines) |->
        lines[i].from_status = 1 /\ lines[i].to_status = 1]

\* lines 114-121: the checks of given_lineid against the line table; the
\* name of the exception raised, or "none"
GivenLineError(lines, given_lineid) ==
    IF \A i \in 1..Len(lines) : lines[i].id # given_lineid
    THEN "IDNotFoundError"
    ELSE LET l == lines[CHOOSE i \in 1..Len(lines) : lines[i].id = given_lineid]
         IN  IF l.from_status = 0 \/ l.to_status = 0
             THEN "LineIDNotConnectedOnBothSides"
             ELSE "none"

\* lines 86-123: the GraphProcessor is built from the lines and the
\* transformer, given_lineid is checked, and the alternatives are asked for
NmBegin ==
    /\ nm.pc = "loaded"
    /\ LET lines == nm.input_data.line
           vs == nm.input_data.node
           src == nm.input_data.node[1]
           es == [i \in 1..Len(lines) |-> lines[i].id] \o nm.input_data.transformer
           ps == [i \in 1..Len(lines) |-> <<lines[i].from_node, lines[i].to_node>>]
                   \o <<<<src, nm.lv_busbar>>>>
           en == Append(EdgeEnabledInit(lines), TRUE)
           made == Construct(vs, es, ps, en, src)
           gra == [vertex_ids |-> vs, edge_ids |-> es,
                   edge_vertex_id_pairs |-> ps, edge_enabled |-> en,
                   source_vertex_id |-> src, graph |-> made.graph]
           wrong == GivenLineError(lines, nm.given_lineid)
       IN  /\ vertex_ids' = vs
           /\ edge_ids' = es
           /\ edge_vertex_id_pairs' = ps
           /\ edge_enabled' = en
           /\ source_vertex_id' = src
           /\ status' = made.status
           /\ IF made.status # "ok"
              THEN /\ nm' = [nm EXCEPT !.pc = made.status]
                   /\ graph' = made.graph
              ELSE IF wrong # "none"
              THEN /\ nm' = [nm EXCEPT !.pc = wrong]
                   /\ graph' = made.graph
              ELSE LET found == FindAlternativeEdges(gra, nm.given_lineid)
                   IN  /\ nm' = [nm EXCEPT
                                   !.pc = IF found.kind = "return" THEN "loop"
                                          ELSE found.value,
                                   !.alt_list = IF found.kind = "return"
                                                THEN found.value ELSE <<>>,
                                   !.i = 1]
                       /\ graph' = GraphAfterAlternative(gra, nm.given_lineid)
    /\ UNCHANGED nmFrame

\* lines 130-134: new_data, the copy of the input data in which to_status of
\* the alternative is 1 and both statuses of the given line are 0
NewData(lines, alt_id, given_lineid) ==
    LET opened == [i \in 1..Len(lines) |->
                      IF lines[i].id = alt_id
                      THEN [lines[i] EXCEPT !.to_status = 1] ELSE lines[i]]
    IN  [i \in 1..Len(lines) |->
            IF opened[i].id = given_lineid
            THEN [opened[i] EXCEPT !.to_status = 0, !.from_status = 0]
            ELSE opened[i]]

\* lines 129-154: one turn of the loop over alt_list
NmTurn ==
    /\ nm.pc = "loop"
    /\ nm.i <= Len(nm.alt_list)
    /\ nm' = [nm EXCEPT
                !.new_data = NewData(nm.input_data.line, nm.alt_list[nm.i],
                                     nm.given_lineid),
                !.rows = Append(@, nm.alt_list[nm.i]),
                !.i = @ + 1]
    /\ UNCHANGED <<objVars, status, nmFrame>>

\* lines 156-157: the loop has ended and the table of rows is returned
NmReturn ==
    /\ nm.pc = "loop"
    /\ nm.i > Len(nm.alt_list)
    /\ nm' = [nm EXCEPT !.pc = "returned"]
    /\ UNCHANGED <<objVars, status, nmFrame>>

NextNm ==
    \/ NmBegin
    \/ NmTurn
    \/ NmReturn

SpecNm == InitNm /\ [][NextNm]_vars

\* The row of line id in a line table
RowOf(lines, id) == lines[CHOOSE i \in 1..Len(lines) : lines[i].id = id]

\* C24: in nm_function, the network simulated for an alternative has the
\* given line disconnected on both sides, the alternative connected on both
\* sides and every other line as in the input, and the loaded input data
\* stays as loaded.
C24_SimulatedIsTrialConfiguration ==
    /\ nm.pc \in {"loop", "returned"} => nm.input_data.line = nm.loaded
    /\ (nm.pc \in {"loop", "returned"} /\ nm.i > 1) =>
          LET alt_id == nm.alt_list[nm.i - 1]
          IN  /\ Len(nm.new_data) = Len(nm.loaded)
              /\ RowOf(nm.new_data, nm.given_lineid).from_status = 0
              /\ RowOf(nm.new_data, nm.given_lineid).to_status = 0
              /\ RowOf(nm.new_data, alt_id).from_status = 1
              /\ RowOf(nm.new_data, alt_id).to_status = 1
              /\ \A i \in 1..Len(nm.loaded) :
                    nm.loaded[i].id \notin {alt_id, nm.given_lineid} =>
                        nm.new_data[i] = nm.loaded[i]

====
